---------------------------- MODULE Spec2Model ----------------------------
(***************************************************************************)
(* A model of ssis_validator: the descriptor locator, the project          *)
(* (.dtproj) and package (.dtsx) extractors, the ten validation rules,     *)
(* validate_projects, print_validation_result and main.                    *)
(*                                                                         *)
(* Conventions.                                                            *)
(*   - A Python Optional is a sequence: None is <<>>, a value v is <<v>>.   *)
(*   - A string the code converts (int(), split(), lower(), "in") is a     *)
(*     sequence of one-character strings; any other string is a string.    *)
(*   - A pathlib.Path is [dir, stem, suffix]: dir is the sequence of the   *)
(*     parent directory's components.                                      *)
(*   - A call that can raise returns [exc, val]: exc is NoExc or the name  *)
(*     of the exception that leaves the call.                              *)
(***************************************************************************)
EXTENDS Integers, Sequences, FiniteSets

VARIABLES
    pc,                 \* position of main / of the call under study
    entry,              \* which main runs: "package" (__init__) or "module" (__main__)
    mode,               \* Mode: [is_repo, directories]
    disk,               \* the file tree: path -> file content (Absent when no file)
    dirs,               \* the directories that exist
    has_git,            \* whether directories[0]/.git exists
    staged,             \* a_path of every entry of the index-vs-HEAD diff, in order
    projects,           \* run's local: the SSISProject stubs
    parsed_projects,    \* _process_dtproj_files' local / run's local
    validated_projects, \* ValidationPipeline.validated_projects
    printed,            \* what print_validation_result has written, in order
    opened,             \* package paths _read_xml_file has opened for _parse_dtsx_file
    raised,             \* the exception travelling up to main, or NoExc
    exit_code,          \* the process exit code, <<>> while running
    extraction_disk,    \* history: the file tree as it was when the descriptors were parsed
    arg,                \* the argument of the call under study
    ret                 \* its result

vars == <<pc, entry, mode, disk, dirs, has_git, staged, projects, parsed_projects,
          validated_projects, printed, opened, raised, exit_code,
          extraction_disk, arg, ret>>

(***************************************************************************)
(* Bounds of the model.                                                    *)
(***************************************************************************)
MaxProjects == 2      \* project directories in the file tree
MaxAttrLen == 2       \* characters of a protection-level attribute
MaxPackages == 2      \* package names in a manifest

(***************************************************************************)
(* Python values.                                                          *)
(***************************************************************************)
None == <<>>
Some(v) == <<v>>
IsNone(x) == x = <<>>
Val(x) == x[1]

NoExc == "NoExc"
Return(v) == [exc |-> NoExc, val |-> v]
Raise(e) == [exc |-> e, val |-> None]

\* F applied to the value of v, with v computed once
With(v, F(_)) == CHOOSE y \in {F(x) : x \in {v}} : TRUE

\* xpath(...)[0] if the result list is non-empty, else None
\* what FirstOrNone would be if the last match were taken
LastOrNone(xs) == IF xs = <<>> THEN None ELSE Some(xs[Len(xs)])

FirstOrNone(xs) == IF xs = <<>> THEN None ELSE Some(xs[1])

\* "not x" for an optional string: None and "" are falsy
Falsy(x) == IsNone(x) \/ Val(x) = ""

\* the same for an optional character string
FalsyChars(x) == IsNone(x) \/ Val(x) = <<>>

(***************************************************************************)
(* Character strings.                                                      *)
(***************************************************************************)
Digits == <<"0", "1", "2", "3", "4", "5", "6", "7", "8", "9">>

IsDigit(c) == \E i \in 1..Len(Digits) : Digits[i] = c

DigitValue(c) == (CHOOSE i \in 1..Len(Digits) : Digits[i] = c) - 1

RECURSIVE DecimalValue(_, _)
DecimalValue(s, acc) ==
    IF s = <<>> THEN acc
    ELSE DecimalValue(Tail(s), acc * 10 + DigitValue(Head(s)))

\* int(s) for s a str: an optional sign and at least one digit, anything
\* else is a ValueError (whitespace and "_" are outside the model's alphabet)
PyInt(s) ==
    LET signed == s /= <<>> /\ Head(s) \in {"+", "-"}
        body == IF signed THEN Tail(s) ELSE s
    IN  IF body /= <<>> /\ \A i \in 1..Len(body) : IsDigit(body[i])
        THEN Return(IF signed /\ Head(s) = "-"
                    THEN 0 - DecimalValue(body, 0)
                    ELSE DecimalValue(body, 0))
        ELSE Raise("ValueError")

\* s.split(".")[0]: the characters before the first "."
RECURSIVE SplitDotFirst(_)
SplitDotFirst(s) ==
    IF s = <<>> \/ Head(s) = "." THEN <<>>
    ELSE <<Head(s)>> \o SplitDotFirst(Tail(s))

Upper == <<"A", "B", "C", "D", "E", "F", "G", "H", "I", "J", "K", "L", "M",
           "N", "O", "P", "Q", "R", "S", "T", "U", "V", "W", "X", "Y", "Z">>
Lower == <<"a", "b", "c", "d", "e", "f", "g", "h", "i", "j", "k", "l", "m",
           "n", "o", "p", "q", "r", "s", "t", "u", "v", "w", "x", "y", "z">>

LowerChar(c) ==
    IF \E i \in 1..Len(Upper) : Upper[i] = c
    THEN Lower[CHOOSE i \in 1..Len(Upper) : Upper[i] = c]
    ELSE c

\* s.lower()
PyLower(s) == [i \in 1..Len(s) |-> LowerChar(s[i])]

\* sub in s
Contains(s, sub) ==
    \E i \in 0..(Len(s) - Len(sub)) :
        \A j \in 1..Len(sub) : s[i + j] = sub[j]

(***************************************************************************)
(* Paths and the file tree.                                                *)
(***************************************************************************)
MkPath(d, stem, suffix) == [dir |-> d, stem |-> stem, suffix |-> suffix]

\* path.parent / Path(rel) for a relative rel
Join(parent, rel) == MkPath(parent \o rel.dir, rel.stem, rel.suffix)

\* Path(rel).name
PathName(p) == <<p.stem, p.suffix>>

Absent == [kind |-> "absent"]

\* path.is_file() / path.exists() for a file of the tree
IsFile(d, p) == p \in DOMAIN d /\ d[p].kind /= "absent"

IsPrefix(s, t) == Len(s) <= Len(t) /\ SubSeq(t, 1, Len(s)) = s

(***************************************************************************)
(* Class constants of ValidationPipeline.                                  *)
(***************************************************************************)
PROJECT_VERSIONS == {"SQLServer2014", "SQLServer2016"}
ALLOWED_ENCRYPTION_METHOD == "EncryptSensitiveWithPassword"
BIXPRESS_SERVER_NAME == <<"s", "e", "r", "v", "e", "r", "_", "n", "a", "m", "e">>
BIXPRESS_CONNECTION_NAME == "OLEDB_BIxPress_1"
ERROR_EVENT_NAME == "SSISOpsEhObj_Package_OnError"

(***************************************************************************)
(* Records.                                                                *)
(***************************************************************************)
SSISProject(name, path, packages, incorrectly_linked, target_server_version, protection_level, deployment_model) ==
    [name |-> name, path |-> path, packages |-> packages,
     incorrectly_linked |-> incorrectly_linked,
     target_server_version |-> target_server_version,
     protection_level |-> protection_level,
     deployment_model |-> deployment_model]

\* SSISProject(name, path): every other field at its default
ProjectStub(name, path) ==
    SSISProject(name, path, <<>>, FALSE, None, None, None)

SSISPackage(name, path, last_modified_version, protection_level, bix_con_name, bix_option_continue_exec, bix_option_no_report_fail) ==
    [name |-> name, path |-> path,
     last_modified_version |-> last_modified_version,
     protection_level |-> protection_level,
     bix_con_name |-> bix_con_name,
     bix_option_continue_exec |-> bix_option_continue_exec,
     bix_option_no_report_fail |-> bix_option_no_report_fail]

\* SSISPackage(name, path): every other field None
PackageStub(name, path) == SSISPackage(name, path, None, None, None, None, None)

(***************************************************************************)
(* XML documents.                                                          *)
(*                                                                         *)
(* A package document is [nsmap_default, nsmap_dts, executables,           *)
(* connection_managers, encrypted_data]: whether the root declares a       *)
(* default namespace (nsmap has the key None), whether it declares the     *)
(* prefix DTS, the                                                         *)
(* DTS:Executable elements in document order (the root first) and the      *)
(* DTS:ConnectionManager elements that carry a DTS:ObjectName, in document *)
(* order, each with the DTS:ConnectionString of its                        *)
(* DTS:ObjectData/DTS:ConnectionManager child; encrypted_data tells        *)
(* whether the root has an EncryptedData child.  A descriptor document is  *)
(* [TargetServerVersion, DeploymentModel, ProtectionLevel, PackageNames,   *)
(* other]: the matches of each of the four queries in document order and   *)
(* the number of elements no query looks at.                               *)
(***************************************************************************)
File(xml) == [kind |-> "file", xml |-> xml]

\* what _read_xml_file returns for a missing file: the string ""
EmptyString == [kind |-> "str"]

IsDtsx(x) == "executables" \in DOMAIN x
IsDtproj(x) == "PackageNames" \in DOMAIN x

\* len(parsed_xml): zero for "" and for a root element without children,
\* positive as soon as the root has a descendant
XmlLen(x) ==
    IF IsDtsx(x)
    THEN (Len(x.executables) - 1) + Len(x.connection_managers)
         + (IF x.encrypted_data THEN 1 ELSE 0)
    ELSE IF IsDtproj(x)
    THEN Len(x.TargetServerVersion) + Len(x.DeploymentModel)
         + Len(x.ProtectionLevel) + Len(x.PackageNames) + x.other
    ELSE 0

\* _read_xml_file(path, encoding): FileNotFoundError gives ""; the ValueError
\* fallback re-reads the same document as bytes
ReadXmlFile(d, path) == IF IsFile(d, path) THEN d[path].xml ELSE EmptyString

\* [f(x) for x in xs if x has the attribute]
RECURSIVE AttrValues(_, _)
AttrValues(xs, attr) ==
    IF xs = <<>> THEN <<>>
    ELSE (IF IsNone(Head(xs)[attr]) THEN <<>> ELSE <<Val(Head(xs)[attr])>>)
         \o AttrValues(Tail(xs), attr)

\* the elements of xs whose DTS:ObjectName is name
RECURSIVE Named(_, _)
Named(xs, name) ==
    IF xs = <<>> THEN <<>>
    ELSE (IF Head(xs).ObjectName = Some(name) THEN <<Head(xs)>> ELSE <<>>)
         \o Named(Tail(xs), name)

\* parsed_xml.xpath(query, namespaces=parsed_xml.nsmap) on a package document:
\* a None key in the map is a TypeError, an undeclared DTS prefix an
\* XPathEvalError
DtsXPath(x, matches) ==
    IF x.nsmap_default THEN Raise("TypeError")
    ELSE IF ~x.nsmap_dts THEN Raise("XPathEvalError")
    ELSE Return(matches)

(***************************************************************************)
(* The package extractor.                                                  *)
(***************************************************************************)
\* _parse_dtsx_protection: int() of a str raises ValueError, which the
\* except TypeError clause does not catch
ParseDtsxProtection(xpath) ==
    IF xpath = <<>> THEN Return(1)
    ELSE PyInt(xpath[1])

\* what _parse_dtsx_modified_version would be if a missing attribute gave 0
ParseDtsxModifiedVersionOrZero(xpath) ==
    IF xpath = <<>> THEN Return(Some(0))
    ELSE LET r == PyInt(SplitDotFirst(xpath[1]))
         IN  IF r.exc = NoExc THEN Return(Some(r.val)) ELSE r

\* _parse_dtsx_modified_version
ParseDtsxModifiedVersion(xpath) ==
    IF xpath = <<>> THEN Return(None)
    ELSE LET r == PyInt(SplitDotFirst(xpath[1]))
         IN  IF r.exc = NoExc THEN Return(Some(r.val)) ELSE r

\* the except TypeError clause of _parse_dtsx_file: etree.SubElement creates
\* the element and returns it, so the test is always true
OnTypeError(package) == [package EXCEPT !.protection_level = Some(3)]

\* the body of the try block after the early return: the exception that
\* leaves it, or the fields it derives
DeriveFields(package, x) ==
    LET q1 == DtsXPath(x, AttrValues(x.executables, "ProtectionLevel"))
        pl == ParseDtsxProtection(q1.val)
        mv == ParseDtsxModifiedVersion(AttrValues(x.executables, "LastModifiedProductVersion"))
        bix == Named(x.connection_managers, BIXPRESS_CONNECTION_NAME)
    IN  IF q1.exc /= NoExc THEN [exc |-> q1.exc, val |-> package]
        ELSE IF pl.exc /= NoExc THEN [exc |-> pl.exc, val |-> package]
        ELSE IF mv.exc /= NoExc THEN [exc |-> mv.exc, val |-> package]
        ELSE Return(SSISPackage(package.name, package.path, mv.val, Some(pl.val),
                                FirstOrNone(AttrValues(bix, "ConnectionString")),
                                FirstOrNone(AttrValues(bix, "DelayValidation")),
                                FirstOrNone(AttrValues(Named(x.executables, ERROR_EVENT_NAME),
                                                       "ForceExecutionResult"))))

\* _parse_dtsx_file(package) on the file tree d
ParseDtsxFile(d, package) ==
    With(ReadXmlFile(d, package.path), LAMBDA x :
        IF XmlLen(x) = 0 THEN Return(package)
        ELSE With(DeriveFields(package, x), LAMBDA r :
                IF r.exc = "TypeError" THEN Return(OnTypeError(package))
                ELSE IF r.exc /= NoExc THEN Raise(r.exc)
                ELSE r))

\* the index of the first call that raises, or one past the last call
FirstRaise(results) ==
    IF \E i \in 1..Len(results) : results[i].exc /= NoExc
    THEN CHOOSE i \in 1..Len(results) :
            /\ results[i].exc /= NoExc
            /\ \A j \in 1..(i - 1) : results[j].exc = NoExc
    ELSE Len(results) + 1

\* a loop that calls once per element and appends the results: the first
\* exception leaves the loop
LoopOutcome(results) ==
    With(FirstRaise(results), LAMBDA k :
        IF k <= Len(results) THEN Raise(results[k].exc)
        ELSE Return([i \in 1..Len(results) |-> results[i].val]))

\* the inner loop of _process_dtsx_files for one project; paths lists the
\* files it handed to _read_xml_file
ParseDtsxFiles(d, packages) ==
    With([i \in 1..Len(packages) |-> ParseDtsxFile(d, packages[i])], LAMBDA results :
        With(LoopOutcome(results), LAMBDA out :
            [exc |-> out.exc, val |-> out.val,
             paths |-> {packages[i].path : i \in {j \in 1..Len(packages) : j <= FirstRaise(results)}}]))

\* _process_dtsx_files(projects): dtproj.packages is replaced project by project
ProcessDtsxFiles(d, ps) ==
    With([i \in 1..Len(ps) |-> ParseDtsxFiles(d, ps[i].packages)], LAMBDA results :
        With(FirstRaise(results), LAMBDA k :
            [exc |-> IF k <= Len(ps) THEN results[k].exc ELSE NoExc,
             val |-> IF k <= Len(ps) THEN None
                     ELSE [i \in 1..Len(ps) |-> [ps[i] EXCEPT !.packages = results[i].val]],
             paths |-> UNION {results[i].paths : i \in {j \in 1..Len(ps) : j <= k}}]))

(***************************************************************************)
(* The project extractor.                                                  *)
(***************************************************************************)
\* the package stubs of _parse_dtproj_file, one per SSIS:Name in document order
PackageStubs(dtproj, names) ==
    [i \in 1..Len(names) |->
        PackageStub(PathName(names[i]), Join(dtproj.path.dir, names[i]))]

\* what IncorrectlyLinked would be if only the first package were looked at
FirstNotLinked(d, packages) == packages /= <<>> /\ ~IsFile(d, packages[1].path)

\* any(not dtsx.path.is_file() for dtsx in dtproj_packages)
IncorrectlyLinked(d, packages) ==
    \E i \in 1..Len(packages) : ~IsFile(d, packages[i].path)

\* "not parsed_xml": true of "" and of a root element without children
NotParsedXml(x) == XmlLen(x) = 0

\* an_element[0].text for the first match of a query, None without a match
FirstText(matches) == IF matches = <<>> THEN None ELSE matches[1]

\* _parse_dtproj_file(dtproj) on the file tree d
ParseDtprojFile(d, dtproj) ==
    LET x == ReadXmlFile(d, dtproj.path)
        packages == PackageStubs(dtproj, x.PackageNames)
    IN  IF NotParsedXml(x) THEN Raise("FileNotFoundError")
        ELSE Return(SSISProject(dtproj.name, dtproj.path, packages,
                                IncorrectlyLinked(d, packages),
                                FirstText(x.TargetServerVersion),
                                FirstOrNone(x.ProtectionLevel),
                                FirstText(x.DeploymentModel)))

\* what ParseDtprojFiles would be if a descriptor that fails were skipped
ParseDtprojFilesSkipping(d, ps) ==
    With([i \in 1..Len(ps) |-> ParseDtprojFile(d, ps[i])], LAMBDA results :
        LoopOutcome(SelectSeq(results, LAMBDA r : r.exc = NoExc)))

\* the loop of _process_dtproj_files: the first exception leaves it
ParseDtprojFiles(d, ps) ==
    With([i \in 1..Len(ps) |-> ParseDtprojFile(d, ps[i])], LAMBDA results : LoopOutcome(results))

(***************************************************************************)
(* The rules.  A Validation is [successful, message]; a message is         *)
(* [marker, subject, text]: the leading "+" or "-", the name it is about   *)
(* and the rest of the line.                                               *)
(***************************************************************************)
Validation(successful, message) == [successful |-> successful, message |-> message]

Msg(marker, subject, text) == Some([marker |-> marker, subject |-> subject, text |-> text])

validate_dtproj_server_version(project) ==
    IF Falsy(project.target_server_version)
    THEN Validation(FALSE, Msg("-", PathName(project.path), "failed validating: no deployment configuration"))
    ELSE IF Val(project.target_server_version) \notin PROJECT_VERSIONS
    THEN Validation(FALSE, Msg("-", PathName(project.path), "failed validating: the project version should be"))
    ELSE Validation(TRUE, Msg("+", PathName(project.path), "successfully validated: Target Server Version"))

validate_dtproj_protection_level(project) ==
    IF Falsy(project.protection_level) \/ Val(project.protection_level) /= ALLOWED_ENCRYPTION_METHOD
    THEN Validation(FALSE, Msg("-", PathName(project.path), "failed validating: the project protection level should be"))
    ELSE Validation(TRUE, Msg("+", PathName(project.path), "successfully validated: Project Protection Level"))

\* the assignments after the if statement overwrite what its branch set
validate_dtproj_packages(project) ==
    LET branch == IF project.packages = <<>>
                  THEN Validation(FALSE, Msg("-", PathName(project.path), "failed validating: no linked packages found"))
                  ELSE Validation(FALSE, None)
    IN  [branch EXCEPT !.successful = TRUE,
                       !.message = Msg("+", PathName(project.path), "successfully validated: linked packages are present")]

\* the assignments after the if statement overwrite what its branch set
validate_dtproj_package_linking(project) ==
    LET branch == IF project.incorrectly_linked
                  THEN Validation(FALSE, Msg("-", PathName(project.path), "failed validating: the packages in the project are not properly linked"))
                  ELSE Validation(FALSE, None)
    IN  [branch EXCEPT !.successful = TRUE,
                       !.message = Msg("+", PathName(project.path), "successfully validated: correct linking of packages")]

validate_deployment_model(project) ==
    IF IsNone(project.deployment_model)
    THEN Validation(FALSE, Msg("+", PathName(project.path), "failed validating: no deployment model found"))
    ELSE IF Val(project.deployment_model) = "Package"
    THEN Validation(FALSE, Msg("+", PathName(project.path), "failed validating: deployment model should be Project not Package"))
    ELSE IF Val(project.deployment_model) = "Project"
    THEN Validation(TRUE, Msg("+", PathName(project.path), "successfully validated: Deployment Model: Project"))
    ELSE Validation(FALSE, None)

validate_dtsx_version(package) ==
    IF IsNone(package.last_modified_version)
       /\ (IsNone(package.last_modified_version) \/ Val(package.last_modified_version) \notin {12, 13, 14})
    THEN Validation(FALSE, Msg("-", package.name, "failed validating: the package version should be"))
    ELSE Validation(TRUE, Msg("+", package.name, "successfully validated: Last Modified Product Version"))

validate_dtsx_protection(package) ==
    IF IsNone(package.protection_level) \/ Val(package.protection_level) /= 2
    THEN Validation(FALSE, Msg("-", package.name, "failed validating: the package protection level should be"))
    ELSE Validation(TRUE, Msg("+", package.name, "successfully validated: Package Protection Level"))

validate_dtsx_bix_con(package) ==
    IF FalsyChars(package.bix_con_name)
    THEN Validation(FALSE, Msg("-", package.name, "failed validating: BIxPress Auditing Framework is missing"))
    ELSE IF ~Contains(PyLower(Val(package.bix_con_name)), BIXPRESS_SERVER_NAME)
    THEN Validation(FALSE, Msg("-", package.name, "failed validating: the server name for BIxPress Auditing Framework should be"))
    ELSE Validation(TRUE, Msg("+", package.name, "successfully validated: presence of BIxPress Auditing Framework"))

validate_dtsx_bix_continue_option(package) ==
    IF Falsy(package.bix_option_continue_exec)
    THEN Validation(FALSE, Msg("-", package.name, "failed validating: Continue package execution was not checked"))
    ELSE Validation(TRUE, Msg("+", package.name, "successfully validated: BIxPress continue execution option"))

validate_dtsx_bix_error_reporting(package) ==
    IF IsNone(package.bix_option_no_report_fail) \/ Val(package.bix_option_no_report_fail) /= "0"
    THEN Validation(FALSE, Msg("-", package.name, "failed validating: Do not report failure was not checked"))
    ELSE Validation(TRUE, Msg("+", package.name, "successfully validated: BIxPress 'do not report failure' option"))

(***************************************************************************)
(* validate_projects.                                                      *)
(***************************************************************************)
ValidationResult(name, path, result) == [name |-> name, path |-> path, result |-> result]

ProjectValidation(project) ==
    ValidationResult(project.name, project.path,
        <<validate_dtproj_server_version(project),
          validate_dtproj_protection_level(project),
          validate_dtproj_packages(project),
          validate_dtproj_package_linking(project),
          validate_deployment_model(project)>>)

PackageValidation(package) ==
    ValidationResult(package.name, package.path,
        <<validate_dtsx_version(package),
          validate_dtsx_protection(package),
          validate_dtsx_bix_con(package),
          validate_dtsx_bix_continue_option(package),
          validate_dtsx_bix_error_reporting(package)>>)

\* what PackagesValidation would be without the test of incorrectly_linked
PackagesValidationAlways(project) ==
    [i \in 1..Len(project.packages) |-> PackageValidation(project.packages[i])]

PackagesValidation(project) ==
    IF ~project.incorrectly_linked
    THEN [i \in 1..Len(project.packages) |-> PackageValidation(project.packages[i])]
    ELSE <<>>

\* one [project_validation, packages_validation] pair per project
ValidateProjects(ps) ==
    [i \in 1..Len(ps) |->
        [project |-> ProjectValidation(ps[i]), packages |-> PackagesValidation(ps[i])]]

(***************************************************************************)
(* print_validation_result.  What it writes is a sequence of events:       *)
(* [kind |-> "project"] for the header of a project, "package" for the     *)
(* header of a package, "validation" for print(result) and "summary" for   *)
(* the "Successfully validated" / "Failed validating" line.                *)
(***************************************************************************)
\* what SortKey would be with key=lambda x: x.successful
SuccessfulKey(x) == x.successful

\* key=lambda x: not x.successful
SortKey(x) == ~x.successful

\* the order of two keys: False < True
KeyLess(a, b) == ~a /\ b

\* what SortedPosition would be if the sort reversed the elements with equal keys
ReversingPosition(xs, i) ==
    Cardinality({j \in 1..Len(xs) : KeyLess(SortKey(xs[j]), SortKey(xs[i]))})
    + Cardinality({j \in i..Len(xs) : SortKey(xs[j]) = SortKey(xs[i])})

\* where sorted() puts xs[i]: behind every element with a smaller key and
\* behind the elements with the same key that come before it (the sort is stable)
SortedPosition(xs, i) ==
    Cardinality({j \in 1..Len(xs) : KeyLess(SortKey(xs[j]), SortKey(xs[i]))})
    + Cardinality({j \in 1..i : SortKey(xs[j]) = SortKey(xs[i])})

\* sorted(xs, key=lambda x: not x.successful)
Sorted(xs) ==
    [p \in 1..Len(xs) |-> xs[CHOOSE i \in 1..Len(xs) : SortedPosition(xs, i) = p]]

AllSuccessful(result) == \A i \in 1..Len(result) : result[i].successful

PrintResults(result) ==
    With(Sorted(result), LAMBDA xs :
        [i \in 1..Len(xs) |->
            [kind |-> "validation", successful |-> xs[i].successful, message |-> xs[i].message]])

RECURSIVE PrintPackages(_)
PrintPackages(packages) ==
    IF packages = <<>> THEN <<>>
    ELSE <<[kind |-> "package", path |-> Head(packages).path]>>
         \o PrintResults(Head(packages).result)
         \o PrintPackages(Tail(packages))

\* project_validation_successful after the loop over project.result
ProjectFlagAfter(flag, project) == flag /\ AllSuccessful(project.result)

\* packages_validation_successful, set to True for every project
PackagesFlag(packages) == \A i \in 1..Len(packages) : AllSuccessful(packages[i].result)

\* the loop over self.validated_projects; flag is project_validation_successful,
\* which is set once, before the loop
RECURSIVE PrintProjects(_, _)
PrintProjects(vps, flag) ==
    IF vps = <<>> THEN <<>>
    ELSE LET project == Head(vps).project
             packages == Head(vps).packages
             flag2 == ProjectFlagAfter(flag, project)
         IN  <<[kind |-> "project", name |-> project.name, path |-> project.path]>>
             \o PrintResults(project.result)
             \o PrintPackages(packages)
             \o <<[kind |-> "summary", name |-> project.name, path |-> project.path,
                   successful |-> PackagesFlag(packages) /\ flag2]>>
             \o PrintProjects(Tail(vps), flag2)

PrintValidationResult(vps) == PrintProjects(vps, TRUE)

(***************************************************************************)
(* The descriptor locator.                                                 *)
(***************************************************************************)
Root == <<0>>

ProjectDir(i) == <<0, i>>

Descriptor(i) == MkPath(ProjectDir(i), "Project", ".dtproj")

PackageFile(i, stem) == MkPath(ProjectDir(i), stem, ".dtsx")

\* the files of the tree a traversal can meet, in the order it meets them
RECURSIVE TraversalFrom(_)
TraversalFrom(i) ==
    IF i > MaxProjects THEN <<>>
    ELSE <<PackageFile(i, "a"), Descriptor(i), PackageFile(i, "b")>> \o TraversalFrom(i + 1)

Traversal == TraversalFrom(1)

\* what Rglob would be if the pattern were "*"
RglobAnyFile(d, directory) ==
    SelectSeq(Traversal, LAMBDA p : IsFile(d, p) /\ IsPrefix(directory, p.dir))

\* directory.rglob("*.dtproj")
Rglob(d, directory) ==
    SelectSeq(Traversal, LAMBDA p : IsFile(d, p) /\ IsPrefix(directory, p.dir) /\ p.suffix = ".dtproj")

\* _get_dir_dtproj_files(directories)
RECURSIVE GetDirDtprojFiles(_, _, _)
GetDirDtprojFiles(d, ds, directories) ==
    IF directories = <<>> THEN Return(<<>>)
    ELSE IF Head(directories) \notin ds THEN Raise("CIException")
    ELSE LET rest == GetDirDtprojFiles(d, ds, Tail(directories))
         IN  IF rest.exc /= NoExc THEN rest
             ELSE Return(Rglob(d, Head(directories)) \o rest.val)

\* _get_repo_changes(current_directory): diff is the a_path of every staged change
GetRepoChanges(git, diff, current_directory) ==
    IF ~git THEN Raise("CIException")
    ELSE Return([i \in 1..Len(SelectSeq(diff, LAMBDA x : x.suffix = ".dtproj")) |->
                    Join(current_directory, SelectSeq(diff, LAMBDA x : x.suffix = ".dtproj")[i])])

\* _get_ssis_projects(projects)
GetSsisProjects(paths) ==
    IF paths = <<>> THEN Raise("CIException")
    ELSE Return([i \in 1..Len(paths) |-> ProjectStub(paths[i].stem, paths[i])])

\* lines 148-154 of run
Discover(m, d, ds, git, diff) ==
    LET changed == IF m.is_repo
                   THEN GetRepoChanges(git, diff, m.directories[1])
                   ELSE GetDirDtprojFiles(d, ds, m.directories)
    IN  IF changed.exc /= NoExc THEN changed ELSE GetSsisProjects(changed.val)

(***************************************************************************)
(* The documents of the file tree main runs on.                            *)
(***************************************************************************)
Executable(name, protection, version, force) ==
    [ObjectName |-> name, ProtectionLevel |-> protection,
     LastModifiedProductVersion |-> version, ForceExecutionResult |-> force]

ConnectionManager(name, delay, connection) ==
    [ObjectName |-> name, DelayValidation |-> delay, ConnectionString |-> connection]

Dtsx(default, dts, executables, managers) ==
    [nsmap_default |-> default, nsmap_dts |-> dts,
     executables |-> executables, connection_managers |-> managers,
     encrypted_data |-> FALSE]

\* the same document with an EncryptedData element under the root
WithEncryptedData(x) == [x EXCEPT !.encrypted_data = TRUE]

Dtproj(version, model, protection, names, other) ==
    [TargetServerVersion |-> version, DeploymentModel |-> model,
     ProtectionLevel |-> protection, PackageNames |-> names, other |-> other]

\* "Data Source=server_name;"
ConnServer == <<"D", "a", "t", "a", " ", "S", "o", "u", "r", "c", "e", "=">> \o BIXPRESS_SERVER_NAME \o <<";">>

\* "SERVER_NAME"
ConnUpper == <<"S", "E", "R", "V", "E", "R", "_", "N", "A", "M", "E">>

\* "Data Source=other;"
ConnOther == <<"D", "a", "t", "a", " ", "S", "o", "u", "r", "c", "e", "=", "o", "t", "h", "e", "r", ";">>

ErrorHandler(force) == Executable(Some(ERROR_EVENT_NAME), None, None, force)

BixManager(delay, connection) == ConnectionManager(Some(BIXPRESS_CONNECTION_NAME), delay, connection)

\* the package of the test suite: every package rule passes
GoodDtsx ==
    Dtsx(FALSE, TRUE,
         <<Executable(Some("Package"), Some(<<"2">>), Some(<<"1", "4", ".", "0", ".", "3">>), None),
           ErrorHandler(Some("0"))>>,
         <<BixManager(Some("True"), Some(ConnServer))>>)

\* a package that passes the first, third and fifth rule only
MixedDtsx ==
    Dtsx(FALSE, TRUE,
         <<Executable(Some("Package"), Some(<<"1">>), Some(<<"1", "2", ".", "0">>), None),
           ErrorHandler(Some("0"))>>,
         <<BixManager(None, Some(ConnUpper))>>)

\* a package whose protection level is not a number
EncryptedDtsx ==
    Dtsx(FALSE, TRUE,
         <<Executable(Some("Package"), Some(<<"x">>), Some(<<"1", "4">>), None)>>,
         <<BixManager(Some("True"), Some(ConnServer))>>)

RelName(stem) == MkPath(<<>>, stem, ".dtsx")

\* every project rule passes; one package
GoodDtproj ==
    Dtproj(<<Some("SQLServer2016")>>, <<Some("Project")>>,
           <<ALLOWED_ENCRYPTION_METHOD>>, <<RelName("a")>>, 1)

\* the first, second and fifth project rule fail; two packages
BadDtproj ==
    Dtproj(<<>>, <<Some("Package")>>, <<"DontSaveSensitive">>,
           <<RelName("b"), RelName("a")>>, 1)

\* every field as the rules want it, and no package
EmptyDtproj ==
    Dtproj(<<Some("SQLServer2014")>>, <<Some("Project")>>,
           <<ALLOWED_ENCRYPTION_METHOD>>, <<>>, 1)

DescriptorFiles == {Absent, File(GoodDtproj), File(BadDtproj), File(EmptyDtproj)}

PackageFiles == {Absent, File(GoodDtsx), File(MixedDtsx), File(EncryptedDtsx)}

MainPaths ==
    {Descriptor(i) : i \in 1..MaxProjects}
        \cup {PackageFile(i, stem) : i \in 1..MaxProjects, stem \in {"a", "b"}}

\* the file trees: in every project directory the descriptor and package a
\* vary, package b is the mixed package
DiskOf(descriptors, packages) ==
    [p \in MainPaths |->
        IF p.suffix = ".dtproj" THEN descriptors[p.dir[2]]
        ELSE IF p.stem = "a" THEN packages[p.dir[2]]
        ELSE File(MixedDtsx)]

MainDisks ==
    {DiskOf(f, g) : f \in [1..MaxProjects -> DescriptorFiles], g \in [1..MaxProjects -> PackageFiles]}

\* the tree in which every rule passes
GoodDisk == DiskOf([i \in 1..MaxProjects |-> File(GoodDtproj)], [i \in 1..MaxProjects |-> File(GoodDtsx)])

NoDisk == [p \in MainPaths |-> Absent]

\* the staged changes: package a of project 1 and the descriptors of a set
\* of projects, whether or not the files are still in the working tree
RECURSIVE StagedDescriptors(_, _)
StagedDescriptors(i, chosen) ==
    IF i > MaxProjects THEN <<>>
    ELSE (IF i \in chosen THEN <<MkPath(<<i>>, "Project", ".dtproj")>> ELSE <<>>)
         \o StagedDescriptors(i + 1, chosen)

StagedChanges == {<<MkPath(<<1>>, "a", ".dtsx")>> \o StagedDescriptors(1, c) : c \in SUBSET (1..MaxProjects)}

\* a directory that does not exist
MissingDir == <<0, 0>>

\* the -p arguments of a run over several directories: a directory given
\* twice, a directory and one inside it, separate directories, and a
\* directory that does not exist
DirectoryLists ==
    {<<Root, Root>>, <<Root, ProjectDir(1)>>, <<ProjectDir(1), Root>>,
     <<ProjectDir(MaxProjects)>>, <<ProjectDir(MaxProjects), ProjectDir(1)>>,
     <<ProjectDir(1), MissingDir>>}

\* the file trees of these runs: the descriptors vary, the packages pass
ListedDisks ==
    {DiskOf(f, [i \in 1..MaxProjects |-> File(GoodDtsx)]) :
        f \in [1..MaxProjects -> {Absent, File(GoodDtproj), File(BadDtproj)}]}

AllDirs == {Root} \cup {ProjectDir(i) : i \in 1..MaxProjects}

(***************************************************************************)
(* main.                                                                   *)
(***************************************************************************)
Idle ==
    /\ projects = <<>>
    /\ parsed_projects = <<>>
    /\ validated_projects = <<>>
    /\ printed = <<>>
    /\ opened = {}
    /\ raised = NoExc
    /\ exit_code = None
    /\ extraction_disk = NoDisk
    /\ ret = None

Init ==
    /\ pc = "start"
    /\ Idle
    /\ arg = None
    /\ \/ \* python -m ssis_validator [-r] -p root
          /\ entry = "module"
          /\ mode \in {[is_repo |-> r, directories |-> <<Root>>] : r \in BOOLEAN}
          /\ dirs = AllDirs /\ disk = GoodDisk
          /\ has_git = TRUE /\ staged \in StagedChanges
       \/ \* ssis_validator -p root, the directory missing
          /\ entry = "package"
          /\ mode = [is_repo |-> FALSE, directories |-> <<Root>>]
          /\ dirs = {} /\ disk = NoDisk
          /\ has_git = FALSE /\ staged = <<>>
       \/ \* ssis_validator -p root
          /\ entry = "package"
          /\ mode = [is_repo |-> FALSE, directories |-> <<Root>>]
          /\ dirs = AllDirs /\ disk \in MainDisks
          /\ has_git = FALSE /\ staged = <<>>
       \/ \* ssis_validator -p dir1 -p dir2
          /\ entry = "package"
          /\ mode \in {[is_repo |-> FALSE, directories |-> ds] : ds \in DirectoryLists}
          /\ dirs = AllDirs /\ disk \in ListedDisks
          /\ has_git = FALSE /\ staged = <<>>
       \/ \* ssis_validator -r -p root, outside a repository
          /\ entry = "package"
          /\ mode = [is_repo |-> TRUE, directories |-> <<Root>>]
          /\ dirs = AllDirs /\ disk = GoodDisk
          /\ has_git = FALSE /\ staged = <<>>
       \/ \* ssis_validator -r -p root
          /\ entry = "package"
          /\ mode = [is_repo |-> TRUE, directories |-> <<Root>>]
          /\ dirs = AllDirs /\ disk \in MainDisks
          /\ has_git = TRUE /\ staged \in StagedChanges

\* determine_mode: __main__.py declares --project and reads args.projects, an
\* AttributeError outside the try block of main
MainStart ==
    /\ pc = "start"
    /\ IF entry = "module"
       THEN /\ pc' = "done"
            /\ raised' = "AttributeError"
            /\ exit_code' = Some(1)
       ELSE /\ pc' = "locate"
            /\ UNCHANGED <<raised, exit_code>>
    /\ UNCHANGED <<entry, mode, disk, dirs, has_git, staged, projects, parsed_projects,
                   validated_projects, printed, opened, extraction_disk, arg, ret>>

\* run, lines 148-154: discovery and _get_ssis_projects
Locate ==
    /\ pc = "locate"
    /\ \E r \in {Discover(mode, disk, dirs, has_git, staged)} :
           IF r.exc /= NoExc
           THEN /\ raised' = r.exc
                /\ pc' = "except"
                /\ UNCHANGED projects
           ELSE /\ projects' = r.val
                /\ pc' = "parse_dtproj"
                /\ UNCHANGED raised
    /\ UNCHANGED <<entry, mode, disk, dirs, has_git, staged, parsed_projects,
                   validated_projects, printed, opened, exit_code, extraction_disk, arg, ret>>

\* _process_dtproj_files, lines 318-324: the loop over the descriptors
ParseDescriptors ==
    /\ pc = "parse_dtproj"
    /\ \E r \in {ParseDtprojFiles(disk, projects)} :
           IF r.exc /= NoExc
           THEN /\ raised' = r.exc
                /\ pc' = "except"
                /\ UNCHANGED parsed_projects
           ELSE /\ parsed_projects' = r.val
                /\ pc' = "parse_dtsx"
                /\ UNCHANGED raised
    /\ extraction_disk' = disk
    /\ UNCHANGED <<entry, mode, disk, dirs, has_git, staged, projects,
                   validated_projects, printed, opened, exit_code, arg, ret>>

\* _process_dtproj_files, line 325: _process_dtsx_files
ParsePackages ==
    /\ pc = "parse_dtsx"
    /\ \E r \in {ProcessDtsxFiles(disk, parsed_projects)} :
           /\ opened' = opened \cup r.paths
           /\ IF r.exc /= NoExc
              THEN /\ raised' = r.exc
                   /\ pc' = "except"
                   /\ UNCHANGED parsed_projects
              ELSE /\ parsed_projects' = r.val
                   /\ pc' = "validate"
                   /\ UNCHANGED raised
    /\ UNCHANGED <<entry, mode, disk, dirs, has_git, staged, projects,
                   validated_projects, printed, exit_code, extraction_disk, arg, ret>>

\* run, line 156
Validate ==
    /\ pc = "validate"
    /\ validated_projects' = ValidateProjects(parsed_projects)
    /\ pc' = "print"
    /\ UNCHANGED <<entry, mode, disk, dirs, has_git, staged, projects, parsed_projects,
                   printed, opened, raised, exit_code, extraction_disk, arg, ret>>

\* main, line 761
PrintReport ==
    /\ pc = "print"
    /\ printed' = PrintValidationResult(validated_projects)
    /\ pc' = "return"
    /\ UNCHANGED <<entry, mode, disk, dirs, has_git, staged, projects, parsed_projects,
                   validated_projects, opened, raised, exit_code, extraction_disk, arg, ret>>

\* what MainReturn would be if a failed project rule made the exit code 1
MainReturnCountingFailures ==
    /\ pc = "return"
    /\ exit_code' = IF \E i \in 1..Len(validated_projects) :
                         ~AllSuccessful(validated_projects[i].project.result)
                    THEN Some(1) ELSE Some(0)
    /\ pc' = "done"
    /\ UNCHANGED <<entry, mode, disk, dirs, has_git, staged, projects, parsed_projects,
                   validated_projects, printed, opened, raised, extraction_disk, arg, ret>>

\* main returns: the interpreter exits with 0
MainReturn ==
    /\ pc = "return"
    /\ exit_code' = Some(0)
    /\ pc' = "done"
    /\ UNCHANGED <<entry, mode, disk, dirs, has_git, staged, projects, parsed_projects,
                   validated_projects, printed, opened, raised, extraction_disk, arg, ret>>

\* main, lines 762-765: except Exception, sys.exit(1)
MainExcept ==
    /\ pc = "except"
    /\ exit_code' = Some(1)
    /\ pc' = "done"
    /\ UNCHANGED <<entry, mode, disk, dirs, has_git, staged, projects, parsed_projects,
                   validated_projects, printed, opened, raised, extraction_disk, arg, ret>>

Next ==
    \/ MainStart
    \/ Locate
    \/ ParseDescriptors
    \/ ParsePackages
    \/ Validate
    \/ PrintReport
    \/ MainReturn
    \/ MainExcept

Spec == Init /\ [][Next]_vars

(***************************************************************************)
(* _parse_dtsx_file on its own: one call on a package file drawn from the  *)
(* documents below.                                                        *)
(***************************************************************************)
Alphabet == {"1", "2", ".", "x"}

\* the strings of at most n characters
Strings(n) == UNION {[1..k -> Alphabet] : k \in 0..n}

ProtectionAttributes == {None} \cup {Some(s) : s \in Strings(MaxAttrLen)}

VersionAttributes ==
    {None} \cup {Some(m \o t) : m \in {<<>>, <<"1">>, <<"1", "2">>, <<"x">>},
                                t \in {<<>>, <<".">>, <<".", "2", ".", "1">>}}

\* the executables behind the root
OtherExecutables ==
    { <<>>,
      <<ErrorHandler(Some("0"))>>,
      <<ErrorHandler(Some("1")), ErrorHandler(Some("0"))>>,
      <<Executable(Some("Task"), Some(<<"3">>), None, Some("0")), ErrorHandler(None)>>,
      <<Executable(Some("Task"), None, Some(<<"1", "3", ".", "0">>), None)>> }

ManagerLists ==
    { <<>>,
      <<BixManager(Some("True"), Some(ConnServer))>>,
      <<ConnectionManager(Some("Other"), Some("False"), Some(ConnOther)),
        BixManager(Some("True"), Some(ConnServer)),
        BixManager(Some("False"), Some(ConnOther))>>,
      <<BixManager(None, None), BixManager(Some("True"), Some(ConnUpper))>>,
      <<ConnectionManager(Some("Other"), Some("True"), Some(ConnServer))>> }

Namespaces == {<<FALSE, TRUE>>, <<TRUE, TRUE>>, <<FALSE, FALSE>>}

PlainDocuments ==
    {Dtsx(ns[1], ns[2], <<Executable(Some("Package"), pl, mv, None)>> \o ex, ms) :
        ns \in Namespaces, pl \in ProtectionAttributes, mv \in VersionAttributes,
        ex \in OtherExecutables, ms \in ManagerLists}

DtsxDocuments == PlainDocuments \cup {WithEncryptedData(x) : x \in PlainDocuments}

ThePackage == PackageFile(1, "a")

InitDtsx ==
    /\ pc = "call"
    /\ Idle
    /\ entry = "package"
    /\ mode = [is_repo |-> FALSE, directories |-> <<Root>>]
    /\ dirs = AllDirs
    /\ has_git = FALSE
    /\ staged = <<>>
    /\ arg = PackageStub(PathName(ThePackage), ThePackage)
    /\ disk \in {[p \in {ThePackage} |-> f] : f \in {Absent} \cup {File(x) : x \in DtsxDocuments}}

\* ValidationPipeline._parse_dtsx_file(arg)
CallParseDtsxFile ==
    /\ pc = "call"
    /\ ret' = ParseDtsxFile(disk, arg)
    /\ opened' = opened \cup {arg.path}
    /\ pc' = "done"
    /\ UNCHANGED <<entry, mode, disk, dirs, has_git, staged, projects, parsed_projects,
                   validated_projects, printed, raised, exit_code, extraction_disk, arg>>

NextDtsx == CallParseDtsxFile

SpecDtsx == InitDtsx /\ [][NextDtsx]_vars

(***************************************************************************)
(* run on one project while other processes create and delete package      *)
(* files: the descriptor lists up to MaxPackages names.                    *)
(***************************************************************************)
RelNames == {RelName("a"), RelName("b"), MkPath(<<7>>, "a", ".dtsx")}

Manifests == UNION {[1..k -> RelNames] : k \in 0..MaxPackages}

ManifestDtproj(names) ==
    Dtproj(<<Some("SQLServer2016")>>, <<Some("Project")>>, <<ALLOWED_ENCRYPTION_METHOD>>, names, 1)

\* a root element without children
ChildlessDtproj == Dtproj(<<>>, <<>>, <<>>, <<>>, 0)

\* a root element whose children are none of the queried elements
UnrelatedDtproj == Dtproj(<<>>, <<>>, <<>>, <<>>, 1)

LinkedPaths == {Join(ProjectDir(1), n) : n \in RelNames}

DtprojDisks ==
    {[p \in {Descriptor(1)} \cup LinkedPaths |-> IF p = Descriptor(1) THEN f ELSE g[p]] :
        f \in {Absent, File(ChildlessDtproj), File(UnrelatedDtproj)}
                \cup {File(ManifestDtproj(m)) : m \in Manifests},
        g \in [LinkedPaths -> {Absent, File(GoodDtsx)}]}

InitDtproj ==
    /\ pc = "parse_dtproj"
    /\ entry = "package"
    /\ mode = [is_repo |-> TRUE, directories |-> <<Root>>]
    /\ dirs = AllDirs
    /\ has_git = TRUE
    /\ staged = <<MkPath(<<1>>, "Project", ".dtproj")>>
    /\ disk \in DtprojDisks
    /\ projects = <<ProjectStub("Project", Descriptor(1))>>
    /\ parsed_projects = <<>>
    /\ validated_projects = <<>>
    /\ printed = <<>>
    /\ opened = {}
    /\ raised = NoExc
    /\ exit_code = None
    /\ extraction_disk = disk
    /\ arg = None
    /\ ret = None

\* another process creates or deletes a package file between the parsing of
\* the descriptors and the parsing of the packages
DiskChanges ==
    /\ pc = "parse_dtsx"
    /\ \E p \in LinkedPaths :
        disk' = [disk EXCEPT ![p] = IF disk[p] = Absent THEN File(GoodDtsx) ELSE Absent]
    /\ UNCHANGED <<pc, entry, mode, dirs, has_git, staged, projects, parsed_projects,
                   validated_projects, printed, opened, raised, exit_code,
                   extraction_disk, arg, ret>>

NextDtproj ==
    \/ ParseDescriptors
    \/ DiskChanges
    \/ ParsePackages
    \/ Validate
    \/ PrintReport
    \/ MainReturn
    \/ MainExcept

SpecDtproj == InitDtproj /\ [][NextDtproj]_vars

(***************************************************************************)
(* Properties.                                                             *)
(***************************************************************************)
Reported == pc \in {"return", "done"} /\ raised = NoExc

\* the summary lines of the report, in order
Summaries == SelectSeq(printed, LAMBDA e : e.kind = "summary")

\* every Validation of the project's own ValidationResult and of the
\* ValidationResults of its own packages is successful
OwnSuccess(vp) ==
    /\ AllSuccessful(vp.project.result)
    /\ \A k \in 1..Len(vp.packages) : AllSuccessful(vp.packages[k].result)

\* the positions of the headers in the report: every header opens the block
\* of one ValidationResult
Headers == {i \in 1..Len(printed) : printed[i].kind \in {"project", "package"}}

\* positions i < j lie in the block of one ValidationResult
SameBlock(i, j) ==
    /\ i < j
    /\ printed[i].kind = "validation"
    /\ printed[j].kind = "validation"
    /\ \A h \in i..j : printed[h].kind = "validation"

\* the Validations printed behind header h, in the order they were printed
Block(h) ==
    LET last == CHOOSE j \in h..Len(printed) :
                    /\ \A i \in (h + 1)..j : printed[i].kind = "validation"
                    /\ (j = Len(printed) \/ printed[j + 1].kind /= "validation")
    IN  [i \in 1..(last - h) |-> Validation(printed[h + i].successful, printed[h + i].message)]

\* the ValidationResults of validate_projects in the order of the report
RECURSIVE ResultsInOrder(_)
ResultsInOrder(vps) ==
    IF vps = <<>> THEN <<>>
    ELSE <<Head(vps).project>> \o Head(vps).packages \o ResultsInOrder(Tail(vps))

\* the h-th header of the report
NthHeader(n) == CHOOSE h \in Headers : Cardinality({g \in Headers : g <= h}) = n

Successes(xs) == SelectSeq(xs, LAMBDA v : v.successful)

Failures(xs) == SelectSeq(xs, LAMBDA v : ~v.successful)

\* C1: a project is reported "Successfully validated" exactly when all of
\* its own project-level and package-level Validations are successful,
\* whatever the projects before it did.
C1_ReportedIffOwnSuccess ==
    Reported =>
        \A i \in 1..Len(validated_projects) :
            Summaries[i].successful = OwnSuccess(validated_projects[i])

C3_StableOrder ==
    Reported =>
        \A n \in 1..Len(ResultsInOrder(validated_projects)) :
            /\ Successes(Block(NthHeader(n))) = Successes(ResultsInOrder(validated_projects)[n].result)
            /\ Failures(Block(NthHeader(n))) = Failures(ResultsInOrder(validated_projects)[n].result)

C3_Witness ==
    /\ Reported
    /\ \E n \in 1..Len(ResultsInOrder(validated_projects)) :
        /\ Len(Failures(Block(NthHeader(n)))) >= 2
        /\ Len(Successes(Block(NthHeader(n)))) >= 2
        /\ Block(NthHeader(n)) /= ResultsInOrder(validated_projects)[n].result

\* C4: the "packages present" rule succeeds exactly when the project's
\* packages list is non-empty.
C4_PackagesRuleIffNonEmpty ==
    \A i \in 1..Len(validated_projects) :
        validated_projects[i].project.result[3].successful
            = (parsed_projects[i].packages /= <<>>)

\* C5: the "package linking" rule succeeds exactly when incorrectly_linked
\* is false, and an incorrectly linked project is never reported as
\* successfully validated.
C5_LinkingRuleIffLinked ==
    /\ \A i \in 1..Len(validated_projects) :
        validated_projects[i].project.result[4].successful
            = ~parsed_projects[i].incorrectly_linked
    /\ Reported =>
        \A i \in 1..Len(validated_projects) :
            parsed_projects[i].incorrectly_linked => ~Summaries[i].successful

\* the package names of the descriptor as they were when it was parsed
ManifestNames == extraction_disk[Descriptor(1)].xml.PackageNames

\* the descriptor's parent directory joined with a package name
LinkedPath(n) == MkPath(ProjectDir(1) \o n.dir, n.stem, n.suffix)

Extracted == parsed_projects /= <<>>

\* C6: the packages of the parsed Project are one stub per manifest name in
\* document order, each at the descriptor's directory joined with the name,
\* and incorrectly_linked tells whether one of these paths was not a file
\* when the descriptor was parsed; package extraction and validation do
\* not change the flag, whatever happens to the files afterwards.
C6_LinkedAtExtraction ==
    Extracted =>
        /\ Len(parsed_projects[1].packages) = Len(ManifestNames)
        /\ \A k \in 1..Len(ManifestNames) :
            parsed_projects[1].packages[k].path = LinkedPath(ManifestNames[k])
        /\ parsed_projects[1].incorrectly_linked
            = (\E k \in 1..Len(ManifestNames) :
                  extraction_disk[LinkedPath(ManifestNames[k])] = Absent)

C6_Witness ==
    /\ Extracted
    /\ pc = "done"
    /\ Len(ManifestNames) = 2
    /\ ManifestNames[1] /= ManifestNames[2]
    /\ ~parsed_projects[1].incorrectly_linked
    /\ disk[LinkedPath(ManifestNames[2])] = Absent

\* the document _parse_dtsx_file reads
TheDocument == disk[ThePackage].xml

\* s is a decimal numeral
IsNumeral(s) == s /= <<>> /\ \A i \in 1..Len(s) : IsDigit(s[i])

\* the numeral of n, padded with zeros to width characters
RECURSIVE Power10(_)
Power10(k) == IF k = 0 THEN 1 ELSE 10 * Power10(k - 1)

Numeral(n, width) == [i \in 1..width |-> Digits[((n \div Power10(width - i)) % 10) + 1]]

\* the position of the first "." of s
FirstDot(s) == CHOOSE k \in 1..Len(s) : s[k] = "." /\ \A j \in 1..(k - 1) : s[j] /= "."

\* s is "M.x.y.z" with M a numeral
IsVersion(s) == (\E k \in 1..Len(s) : s[k] = ".") /\ IsNumeral(SubSeq(s, 1, FirstDot(s) - 1))

\* the first element of xs with the given name
FirstNamed(xs, name) ==
    xs[CHOOSE i \in 1..Len(xs) :
          /\ xs[i].ObjectName = Some(name)
          /\ \A j \in 1..(i - 1) : xs[j].ObjectName /= Some(name)]

HasNamed(xs, name) == \E i \in 1..Len(xs) : xs[i].ObjectName = Some(name)

\* the document has everything C7 asks for
Complete(x) ==
    /\ ~x.nsmap_default
    /\ x.nsmap_dts
    /\ ~IsNone(x.executables[1].ProtectionLevel)
    /\ IsNumeral(Val(x.executables[1].ProtectionLevel))
    /\ ~IsNone(x.executables[1].LastModifiedProductVersion)
    /\ IsVersion(Val(x.executables[1].LastModifiedProductVersion))
    /\ HasNamed(x.connection_managers, BIXPRESS_CONNECTION_NAME)
    /\ ~IsNone(FirstNamed(x.connection_managers, BIXPRESS_CONNECTION_NAME).ConnectionString)
    /\ ~IsNone(FirstNamed(x.connection_managers, BIXPRESS_CONNECTION_NAME).DelayValidation)
    /\ HasNamed(x.executables, ERROR_EVENT_NAME)
    /\ ~IsNone(FirstNamed(x.executables, ERROR_EVENT_NAME).ForceExecutionResult)

Parsed == pc = "done" /\ disk[ThePackage] /= Absent

\* C7: from a complete package document _parse_dtsx_file returns the stub's
\* name and path, the two numbers as integers, and the connection string,
\* delay-validation and force-execution-result attributes of the first
\* connection manager and of the first executable with the fixed names.
C7_ExtractsFirstMatch ==
    (Parsed /\ Complete(TheDocument)) =>
        /\ ret.exc = NoExc
        /\ ret.val.name = arg.name
        /\ ret.val.path = arg.path
        /\ Numeral(Val(ret.val.protection_level), Len(Val(TheDocument.executables[1].ProtectionLevel)))
            = Val(TheDocument.executables[1].ProtectionLevel)
        /\ Numeral(Val(ret.val.last_modified_version),
                   FirstDot(Val(TheDocument.executables[1].LastModifiedProductVersion)) - 1)
            = SubSeq(Val(TheDocument.executables[1].LastModifiedProductVersion), 1,
                     FirstDot(Val(TheDocument.executables[1].LastModifiedProductVersion)) - 1)
        /\ ret.val.bix_con_name
            = FirstNamed(TheDocument.connection_managers, BIXPRESS_CONNECTION_NAME).ConnectionString
        /\ ret.val.bix_option_continue_exec
            = FirstNamed(TheDocument.connection_managers, BIXPRESS_CONNECTION_NAME).DelayValidation
        /\ ret.val.bix_option_no_report_fail
            = FirstNamed(TheDocument.executables, ERROR_EVENT_NAME).ForceExecutionResult

C7_Witness ==
    /\ Parsed
    /\ Complete(TheDocument)
    /\ ret.exc = NoExc
    /\ ret.val.protection_level = Some(12)
    /\ ret.val.last_modified_version = Some(12)
    /\ Len(Named(TheDocument.connection_managers, BIXPRESS_CONNECTION_NAME)) = 2
    /\ Len(Named(TheDocument.executables, ERROR_EVENT_NAME)) = 2
    /\ ret.val.bix_option_no_report_fail = Some("1")

\* the document is parsed and its queries can be evaluated
Queried(x) == XmlLen(x) > 0 /\ ~x.nsmap_default /\ x.nsmap_dts

\* C8: a protection-level or last-modified-version attribute that is present
\* but not a number never surfaces as an exception: the field gets the
\* default 0.
C8_NonNumericDefaultsToZero ==
    (Parsed /\ Queried(TheDocument)) =>
        /\ (~IsNone(TheDocument.executables[1].ProtectionLevel)
            /\ ~IsNumeral(Val(TheDocument.executables[1].ProtectionLevel)))
           => (ret.exc = NoExc /\ ret.val.protection_level = Some(0))
        /\ (~IsNone(TheDocument.executables[1].LastModifiedProductVersion)
            /\ ~IsNumeral(SplitDotFirst(Val(TheDocument.executables[1].LastModifiedProductVersion))))
           => (ret.exc = NoExc /\ ret.val.last_modified_version = Some(0))

\* what makes the pipeline raise before anything is validated
FatalCause ==
    \/ ~mode.is_repo /\ \E i \in 1..Len(mode.directories) : mode.directories[i] \notin dirs
    \/ mode.is_repo /\ ~has_git
    \/ pc \notin {"start", "locate"} /\ projects = <<>>
    \/ \E i \in 1..Len(projects) : ~IsFile(disk, projects[i].path)

SomeFailure ==
    \E i \in 1..Len(validated_projects) : ~OwnSuccess(validated_projects[i])

\* C9: the exit code is 0 when discovery, extraction and validation complete
\* without an exception, however many Validations failed, and 1 when the
\* pipeline raises.
C9_ExitCode ==
    pc = "done" =>
        /\ (raised = NoExc) => (exit_code = Some(0) /\ printed /= <<>>)
        /\ (raised /= NoExc) => exit_code = Some(1)
        /\ FatalCause => exit_code = Some(1)

C9_Witness ==
    /\ pc = "done"
    /\ entry = "package"
    /\ raised = NoExc
    /\ exit_code = Some(0)
    /\ Len(validated_projects) = MaxProjects
    /\ \A i \in 1..Len(validated_projects) : ~OwnSuccess(validated_projects[i])

\* C10: when the descriptor file of one of the discovered projects is
\* missing, run raises, validated_projects stays empty, nothing is
\* validated or printed and no package file is opened.
C10_NoPartialResults ==
    (\E i \in 1..Len(projects) : ~IsFile(disk, projects[i].path)) =>
        /\ validated_projects = <<>>
        /\ printed = <<>>
        /\ opened = {}
        /\ pc \notin {"validate", "print", "return"}
        /\ pc = "done" => (raised = "FileNotFoundError" /\ exit_code = Some(1))

C10_Witness ==
    /\ pc = "done"
    /\ Len(projects) = 2
    /\ IsFile(disk, projects[1].path)
    /\ disk[projects[1].path] = File(GoodDtproj)
    /\ disk[PackageFile(1, "a")] = File(GoodDtsx)
    /\ ~IsFile(disk, projects[2].path)

\* the run is past discovery
Located == entry = "package" /\ pc \notin {"start", "locate"}

\* the .dtproj files of the tree below one of the listed directories
Reachable ==
    {p \in MainPaths :
        /\ p.suffix = ".dtproj"
        /\ IsFile(disk, p)
        /\ \E k \in 1..Len(mode.directories) : IsPrefix(mode.directories[k], p.dir)}

\* the staged changes that are descriptors
StagedDtproj == {k \in 1..Len(staged) : staged[k].suffix = ".dtproj"}

\* what the locator has to offer
Offered == IF mode.is_repo THEN StagedDtproj /= {} ELSE Reachable /= {}

\* discovery itself did not fail: the listed directories exist, the
\* repository is one
Searchable ==
    IF mode.is_repo THEN has_git
    ELSE \A k \in 1..Len(mode.directories) : mode.directories[k] \in dirs

\* C11: the located paths all have the suffix ".dtproj"; in directory mode
\* with every listed directory existing they include every .dtproj file
\* below a listed directory; and a run whose locator finds nothing fails
\* with the CIException of _get_ssis_projects and never goes on with zero
\* projects.
C11_LocatorOutput ==
    Located =>
        /\ \A i \in 1..Len(projects) : projects[i].path.suffix = ".dtproj"
        /\ (~mode.is_repo /\ Searchable /\ Offered) =>
                \A p \in Reachable : \E i \in 1..Len(projects) : projects[i].path = p
        /\ (Searchable /\ ~Offered) =>
                /\ projects = <<>>
                /\ raised = "CIException"
                /\ pc \in {"except", "done"}
                /\ pc = "done" => exit_code = Some(1)
        /\ (Searchable /\ Offered) => projects /= <<>>
        /\ pc \in {"parse_dtproj", "parse_dtsx", "validate", "print", "return"} => projects /= <<>>

C11_Witness ==
    /\ Located
    /\ ~mode.is_repo
    /\ mode.directories = <<ProjectDir(MaxProjects), ProjectDir(1)>>
    /\ Len(projects) = 2
    /\ IsFile(disk, PackageFile(1, "a"))
    /\ pc = "done"

\* _parse_dtsx_file returned the stub it was given, nothing derived
StubUnchanged == ret.exc = NoExc /\ ret.val = arg

\* the root element declares no namespace at all
NamespaceMapEmpty(x) == ~x.nsmap_default /\ ~x.nsmap_dts

PackageAbsent == disk[ThePackage] = Absent

\* C12: _parse_dtsx_file returns the stub unchanged and raises nothing
\* exactly when the package file is absent or the namespace map of the
\* document's root is empty.
C12_StubIffAbsentOrNoNamespaces ==
    pc = "done" =>
        (StubUnchanged <=> (PackageAbsent \/ NamespaceMapEmpty(TheDocument)))

\* the descriptor file as it was when _parse_dtproj_file read it
DescriptorExisted == IsFile(extraction_disk, Descriptor(1))

\* _process_dtproj_files has been left, by a return or by an exception
DescriptorHandled == pc /= "parse_dtproj"

\* the Project a document with none of the queried elements gives
BareProject(dtproj) == SSISProject(dtproj.name, dtproj.path, <<>>, FALSE, None, None, None)

\* no query matches anything in the document
NothingQueried(x) ==
    /\ x.TargetServerVersion = <<>>
    /\ x.DeploymentModel = <<>>
    /\ x.ProtectionLevel = <<>>
    /\ x.PackageNames = <<>>

\* C13: _parse_dtproj_file raises the missing-file error exactly when the
\* descriptor file does not exist; for a descriptor that exists and has none
\* of the queried elements it returns a Project with absent fields and an
\* empty packages list.
C13_MissingFileIffAbsent ==
    DescriptorHandled =>
        /\ (parsed_projects = <<>>) <=> ~DescriptorExisted
        /\ ~DescriptorExisted => raised = "FileNotFoundError"
        /\ (DescriptorExisted /\ NothingQueried(extraction_disk[Descriptor(1)].xml)) =>
                /\ parsed_projects /= <<>>
                /\ parsed_projects[1] = BareProject(projects[1])

\* the Validations validate_projects returned, as a set
AllValidations ==
    UNION {{validated_projects[i].project.result[k] : k \in 1..Len(validated_projects[i].project.result)}
              \cup UNION {{validated_projects[i].packages[j].result[k] :
                               k \in 1..Len(validated_projects[i].packages[j].result)} :
                           j \in 1..Len(validated_projects[i].packages)} :
           i \in 1..Len(validated_projects)}

\* the message is there and its first character says what the verdict is
MarkerMatches(v) ==
    /\ ~IsNone(v.message)
    /\ Val(v.message).marker = (IF v.successful THEN "+" ELSE "-")

\* C14: every Validation a rule returns has a message, which starts with
\* "+" when the Validation is successful and with "-" when it is not.
C14_MarkerMatchesVerdict == \A v \in AllValidations : MarkerMatches(v)

\* the root executable has no DTS:LastModifiedProductVersion
VersionAbsent(x) == IsNone(x.executables[1].LastModifiedProductVersion)

\* C15: for a document that is parsed and whose root executable has no
\* last-modified-version attribute, the Package has last_modified_version 0
\* and the schema-version rule passes.
C15_AbsentVersionIsZero ==
    (Parsed /\ Queried(TheDocument) /\ VersionAbsent(TheDocument) /\ ret.exc = NoExc) =>
        /\ ret.val.last_modified_version = Some(0)
        /\ validate_dtsx_version(ret.val).successful

\* no executable of the document has a DTS:LastModifiedProductVersion
VersionNowhere(x) ==
    \A i \in 1..Len(x.executables) : IsNone(x.executables[i].LastModifiedProductVersion)

\* C15 amended: for a document in which no executable has a
\* last-modified-version attribute, the Package _parse_dtsx_file returns has
\* last_modified_version None, and the schema-version rule fails for it.
C15_AbsentVersionIsNone ==
    (pc = "done" /\ ~PackageAbsent /\ VersionNowhere(TheDocument) /\ ret.exc = NoExc) =>
        /\ ret.val.last_modified_version = None
        /\ ~validate_dtsx_version(ret.val).successful

C15_Witness ==
    /\ Parsed
    /\ Queried(TheDocument)
    /\ VersionNowhere(TheDocument)
    /\ Len(TheDocument.executables) = 3
    /\ ret.exc = NoExc
    /\ ret.val.protection_level = Some(12)
    /\ ret.val.bix_con_name = Some(ConnServer)
    /\ ret.val.last_modified_version = None
    /\ ~validate_dtsx_version(ret.val).successful

\* the first query meets a namespace map with the key None: the TypeError
\* of _parse_dtsx_file
TypeErrorRaised(x) == XmlLen(x) > 0 /\ x.nsmap_default

\* C16: after a TypeError in the extraction, protection_level is 3 exactly
\* when the document has an EncryptedData element; without one it keeps the
\* value it had before the failure.
C16_ThreeIffEncryptedData ==
    (Parsed /\ TypeErrorRaised(TheDocument)) =>
        /\ ret.exc = NoExc
        /\ (ret.val.protection_level = Some(3)) <=> TheDocument.encrypted_data
        /\ ~TheDocument.encrypted_data => ret.val.protection_level = arg.protection_level

\* validate_projects has returned
Validated == raised = NoExc /\ pc \in {"print", "return", "done"}

\* the five project rules and the five package rules, in the order of the
\* lists validate_projects builds
ProjectRuleResults(project) ==
    <<validate_dtproj_server_version(project), validate_dtproj_protection_level(project),
      validate_dtproj_packages(project), validate_dtproj_package_linking(project),
      validate_deployment_model(project)>>

PackageRuleResults(package) ==
    <<validate_dtsx_version(package), validate_dtsx_protection(package),
      validate_dtsx_bix_con(package), validate_dtsx_bix_continue_option(package),
      validate_dtsx_bix_error_reporting(package)>>

\* C17: validate_projects returns one pair per project in input order; the
\* project result has the five project rules in their order; the package
\* results are empty for an incorrectly linked project and otherwise one per
\* package in document order, each with the five package rules in order.
C17_OnePairPerProject ==
    Validated =>
        /\ Len(validated_projects) = Len(parsed_projects)
        /\ \A i \in 1..Len(parsed_projects) :
            /\ validated_projects[i].project.name = parsed_projects[i].name
            /\ validated_projects[i].project.path = parsed_projects[i].path
            /\ Len(validated_projects[i].project.result) = 5
            /\ validated_projects[i].project.result = ProjectRuleResults(parsed_projects[i])
            /\ parsed_projects[i].incorrectly_linked => validated_projects[i].packages = <<>>
            /\ ~parsed_projects[i].incorrectly_linked =>
                /\ Len(validated_projects[i].packages) = Len(parsed_projects[i].packages)
                /\ \A j \in 1..Len(parsed_projects[i].packages) :
                    /\ validated_projects[i].packages[j].name = parsed_projects[i].packages[j].name
                    /\ validated_projects[i].packages[j].path = parsed_projects[i].packages[j].path
                    /\ Len(validated_projects[i].packages[j].result) = 5
                    /\ validated_projects[i].packages[j].result
                        = PackageRuleResults(parsed_projects[i].packages[j])

C17_Witness ==
    /\ Validated
    /\ Len(parsed_projects) = 2
    /\ parsed_projects[1].incorrectly_linked
    /\ Len(parsed_projects[1].packages) = 2
    /\ validated_projects[1].packages = <<>>
    /\ ~parsed_projects[2].incorrectly_linked
    /\ Len(validated_projects[2].packages) = 2
    /\ validated_projects[2].packages[1].path /= validated_projects[2].packages[2].path

\* the summary lines the report has for the descriptor p
SummariesOf(p) ==
    {i \in 1..Len(validated_projects) :
        i <= Len(Summaries) /\ validated_projects[i].project.path = p}

\* C18: in directory mode every .dtproj file is in the locator's output at
\* most once, and is parsed, validated and reported at most once,
\* whichever directories are listed.
C18_EachDescriptorOnce ==
    (Located /\ ~mode.is_repo) =>
        \A p \in MainPaths :
            /\ Cardinality({i \in 1..Len(projects) : projects[i].path = p}) <= 1
            /\ Cardinality({i \in 1..Len(parsed_projects) : parsed_projects[i].path = p}) <= 1
            /\ Cardinality({i \in 1..Len(validated_projects) :
                                validated_projects[i].project.path = p}) <= 1
            /\ Cardinality(SummariesOf(p)) <= 1

=============================================================================
